---- MODULE Spec2Model ----
(***************************************************************************)
(* The `commandline` builtin of fish (builtin_commandline.cpp): the reader's *)
(* command line is an editable_line_t {text, position}; the builtin takes a  *)
(* snapshot of it, resolves an extent, and either prints the extent         *)
(* (write_part) or splices text into it (replace_part) and hands the new    *)
(* line to apply_new_commandline, which sets the reader's buffer directly    *)
(* on the main thread and enqueues a heap copy for the main thread          *)
(* otherwise.                                                               *)
(*                                                                         *)
(* Texts and argv words are sequences of one-character strings.  Pointers   *)
(* into a text (begin, end) are offsets from its start.                     *)
(***************************************************************************)
EXTENDS Integers, Sequences, FiniteSets, TLC

VARIABLES
    reader,       \* the reader's live state: command line, selection, modes
    substituted,  \* parser's stack of substituted (transient) command lines
    queue,        \* requests enqueued to the main thread, oldest first
    frame,        \* the io thread's call in progress: its snapshot and buffer
    input_queue,  \* characters queued by input_queue_ch
    last          \* observation of the last step (who acted, with what result)

vars == <<reader, substituted, queue, frame, input_queue, last>>

\* ------------------------------------------------------------------ bounds
MaxLen == 3      \* longest text given to replace_part / write_part on their own
MaxLine == 2     \* longest command line the reader holds in the builtin's runs
MaxQueue == 1    \* most requests waiting for the main thread

\* ----------------------------------------------------------------- helpers
RECURSIVE TextsUpTo(_, _)
TextsUpTo(chars, n) ==
    IF n = 0 THEN {<<>>}
    ELSE LET shorter == TextsUpTo(chars, n - 1)
         IN  shorter \cup {Append(t, c) : t \in {s \in shorter : Len(s) = n - 1}, c \in chars}

Prefix(t, n) == SubSeq(t, 1, n)                  \* t[0:n]
Slice(t, b, e) == SubSeq(t, b + 1, e)            \* t[b:e]
Suffix(t, b) == SubSeq(t, b + 1, Len(t))         \* t[b:]

EditableLine(t, p) == [text |-> t, position |-> p]

\* enum at the top of the file
STRING_MODE == 1
JOB_MODE == 2
PROCESS_MODE == 3
TOKEN_MODE == 4
REPLACE_MODE == 1
INSERT_MODE == 2
APPEND_MODE == 3

\* ------------------------------------------------------------ replace_part
\* Mutant: the cursor after an insertion is not advanced past the inserted text.
replace_part_cursor_not_advanced(buffer, begin, end, insert, append_mode) ==
    LET buff == buffer.text
        head == Prefix(buff, begin)
    IN  CASE append_mode = REPLACE_MODE ->
               EditableLine(head \o insert \o Suffix(buff, end), begin)
          [] append_mode = APPEND_MODE ->
               EditableLine(head \o Slice(buff, begin, end) \o insert \o Suffix(buff, end),
                            buffer.position + Len(insert))
          [] append_mode = INSERT_MODE ->
               LET cursor == buffer.position - begin
               IN  EditableLine(head \o Slice(buff, begin, begin + cursor) \o insert
                                     \o Slice(buff, begin + cursor, end) \o Suffix(buff, end),
                                buffer.position)

\* Mutant: the insertion lands at the start of the extent, and an append
\* before the extent's text.
replace_part_wrong_place(buffer, begin, end, insert, append_mode) ==
    LET buff == buffer.text
        head == Prefix(buff, begin)
    IN  CASE append_mode = REPLACE_MODE ->
               EditableLine(head \o insert \o Suffix(buff, end), Len(insert) + begin)
          [] append_mode = APPEND_MODE ->
               EditableLine(head \o insert \o Slice(buff, begin, end) \o Suffix(buff, end),
                            buffer.position)
          [] append_mode = INSERT_MODE ->
               EditableLine(head \o insert \o Slice(buff, begin, end) \o Suffix(buff, end),
                            buffer.position + Len(insert))

\* The line replace_part builds (tmp) and hands to apply_new_commandline.
\* INSERT_MODE reads `cursor` characters from begin; the callers only pass
\* extents that enclose the position, so 0 <= cursor <= end - begin here.
replace_part(buffer, begin, end, insert, append_mode) ==
    LET buff == buffer.text
        head == Prefix(buff, begin)                       \* out.append(buff, begin - buff)
    IN  CASE append_mode = REPLACE_MODE ->
               EditableLine(head \o insert \o Suffix(buff, end), Len(insert) + begin)
          [] append_mode = APPEND_MODE ->
               EditableLine(head \o Slice(buff, begin, end) \o insert \o Suffix(buff, end),
                            buffer.position)
          [] append_mode = INSERT_MODE ->
               LET cursor == buffer.position - begin
               IN  EditableLine(head \o Slice(buff, begin, begin + cursor) \o insert
                                     \o Slice(buff, begin + cursor, end) \o Suffix(buff, end),
                                buffer.position + Len(insert))

\* ------------------------------------------------- the reader and the queue
\* reader_set_buffer(text, position): the reader's command line becomes the pair.
reader_set_buffer(r, text, position) ==
    [r EXCEPT !.command_line = EditableLine(text, position)]

\* Mutant: the buffer is set from whichever thread computed it.
apply_new_commandline_any_thread(is_main_thread, buffer) ==
    /\ reader' = reader_set_buffer(reader, buffer.text, buffer.position)
    /\ queue' = queue

\* apply_new_commandline: directly on the main thread, else a copy is enqueued.
apply_new_commandline(is_main_thread, buffer) ==
    IF is_main_thread
    THEN /\ reader' = reader_set_buffer(reader, buffer.text, buffer.position)
         /\ queue' = queue
    ELSE /\ queue' = Append(queue, buffer)
         /\ reader' = reader

\* What one call hands on: nothing, or one line.
Commit(is_main_thread, handed) ==
    IF handed = <<>>
    THEN UNCHANGED <<reader, queue>>
    ELSE apply_new_commandline(is_main_thread, handed[1])

\* Mutant: the request's text is applied, with the cursor put at its end.
apply_new_commandline_and_delete_cursor_at_end ==
    /\ queue # <<>>
    /\ reader' = reader_set_buffer(reader, Head(queue).text, Len(Head(queue).text))
    /\ queue' = Tail(queue)

\* apply_new_commandline_and_delete, run by the main thread for the oldest request.
apply_new_commandline_and_delete ==
    /\ queue # <<>>
    /\ reader' = reader_set_buffer(reader, Head(queue).text, Head(queue).position)
    /\ queue' = Tail(queue)

IdleReader(line) ==
    [command_line |-> line, selection_is_active |-> FALSE, selection_start |-> 0,
     selection_length |-> 0, search_mode |-> FALSE, has_pager_contents |-> FALSE]

NoFrame == [running |-> FALSE]

\* ============================================================ replace_part alone
SpliceChars == {"a", "b"}
SpliceInserts == {<<>>, <<"x">>, <<"x", "y">>}
SpliceModes == {REPLACE_MODE, INSERT_MODE, APPEND_MODE}

\* The calls replace_part can get: any extent of the text, and for INSERT_MODE
\* one that encloses the position.
SpliceCalls(n) ==
    {[op |-> "replace_part", main |-> m, buffer |-> EditableLine(t, p), begin |-> b,
      end |-> e, insert |-> i, append_mode |-> a, done |-> FALSE, handed |-> <<>>] :
        m \in BOOLEAN, t \in TextsUpTo(SpliceChars, n), p \in 0..n,
        b \in 0..n, e \in 0..n, i \in SpliceInserts, a \in SpliceModes}

ValidSpliceCall(c) ==
    /\ c.buffer.position <= Len(c.buffer.text)
    /\ c.begin <= c.end
    /\ c.end <= Len(c.buffer.text)
    /\ c.append_mode = INSERT_MODE => c.begin <= c.buffer.position /\ c.buffer.position <= c.end

SpliceInit ==
    /\ last \in {c \in SpliceCalls(MaxLen) : ValidSpliceCall(c)}
    /\ reader = IdleReader(EditableLine(<<>>, 0))
    /\ substituted = <<>>
    /\ queue = <<>>
    /\ frame = NoFrame
    /\ input_queue = <<>>

CallReplacePart ==
    /\ last.op = "replace_part"
    /\ ~last.done
    /\ LET tmp == replace_part(last.buffer, last.begin, last.end, last.insert, last.append_mode)
       IN  /\ apply_new_commandline(last.main, tmp)
           /\ last' = [last EXCEPT !.done = TRUE, !.handed = <<tmp>>]
    /\ UNCHANGED <<substituted, frame, input_queue>>

SpliceDrain ==
    /\ apply_new_commandline_and_delete
    /\ UNCHANGED <<substituted, frame, input_queue, last>>

SpliceNext == CallReplacePart \/ SpliceDrain

SpliceSpec == SpliceInit /\ [][SpliceNext]_vars

\* What the splice table of the specification gives for a call.
SplicePrefix(c) == Prefix(c.buffer.text, c.begin)
SpliceExtent(c) == Slice(c.buffer.text, c.begin, c.end)
SpliceSuffix(c) == Suffix(c.buffer.text, c.end)
SpliceRelative(c) == c.buffer.position - c.begin

ExpectedText(c) ==
    CASE c.append_mode = REPLACE_MODE -> SplicePrefix(c) \o c.insert \o SpliceSuffix(c)
      [] c.append_mode = APPEND_MODE ->
           SplicePrefix(c) \o SpliceExtent(c) \o c.insert \o SpliceSuffix(c)
      [] c.append_mode = INSERT_MODE ->
           SplicePrefix(c) \o Prefix(SpliceExtent(c), SpliceRelative(c)) \o c.insert
               \o Suffix(SpliceExtent(c), SpliceRelative(c)) \o SpliceSuffix(c)

ExpectedCursor(c) ==
    CASE c.append_mode = REPLACE_MODE -> c.begin + Len(c.insert)
      [] c.append_mode = APPEND_MODE -> c.buffer.position
      [] c.append_mode = INSERT_MODE -> c.buffer.position + Len(c.insert)

SpliceDone == last.op = "replace_part" /\ last.done

\* C1: the text replace_part commits is prefix + insertText + suffix (Replace),
\* prefix + extentText + insertText + suffix (Append), or the extent's text with
\* insertText put at the cursor (Insert); on an empty extent Insert is a pure
\* insertion at that offset.
C1_SpliceText ==
    SpliceDone =>
        /\ last.handed[1].text = ExpectedText(last)
        /\ (last.append_mode = INSERT_MODE /\ last.begin = last.end) =>
               last.handed[1].text = Prefix(last.buffer.text, last.begin) \o last.insert
                                         \o Suffix(last.buffer.text, last.begin)

\* An Insert strictly inside a non-empty extent, with text on both sides of it.
C1_Witness ==
    /\ SpliceDone
    /\ last.append_mode = INSERT_MODE
    /\ 0 < last.begin /\ last.begin < last.buffer.position
    /\ last.buffer.position < last.end /\ last.end <= Len(last.buffer.text)
    /\ last.insert = <<"x", "y">>
    /\ last.handed[1].text = ExpectedText(last)

\* C2: the cursor replace_part commits is begin + length(insertText) (Replace),
\* cursor + length(insertText) (Insert), or the original cursor unchanged
\* (Append), also when that cursor was at or after the extent's end.
C2_SpliceCursor ==
    SpliceDone => last.handed[1].position = ExpectedCursor(last)

\* An Append whose cursor was at or after the extent's end: the cursor stays.
C2_Witness ==
    /\ SpliceDone
    /\ last.append_mode = APPEND_MODE
    /\ last.buffer.position >= last.end
    /\ last.insert # <<>>
    /\ last.handed[1].position = last.buffer.position

\* ============================================================== write_part
TOK_STRING == "TOK_STRING"
TOK_END == "TOK_END"

IsSeparator(c) == c \in {" ", ";"}

\* Where the string token starting at offset i ends: a backslash takes the next
\* character with it, and an unfinished escape at the end is accepted
\* (TOK_ACCEPT_UNFINISHED).
RECURSIVE StringEnd(_, _)
StringEnd(buff, i) ==
    IF i >= Len(buff) THEN Len(buff)
    ELSE IF buff[i + 1] = "\\" THEN StringEnd(buff, i + 2)
    ELSE IF IsSeparator(buff[i + 1]) THEN i
    ELSE StringEnd(buff, i + 1)

\* The tokens of buff from offset i on, left to right: blanks are skipped, ";"
\* ends a statement, anything else is a string token.
RECURSIVE TokensFrom(_, _)
TokensFrom(buff, i) ==
    IF i >= Len(buff) THEN <<>>
    ELSE IF buff[i + 1] = " " THEN TokensFrom(buff, i + 1)
    ELSE IF buff[i + 1] = ";"
         THEN <<[type |-> TOK_END, pos |-> i, last |-> <<";">>]>> \o TokensFrom(buff, i + 1)
    ELSE LET j == StringEnd(buff, i)
         IN  <<[type |-> TOK_STRING, pos |-> i, last |-> Slice(buff, i, j)]>>
                 \o TokensFrom(buff, j)

tokenizer_t(buff) == TokensFrom(buff, 0)

\* unescape_string_in_place(&tmp, UNESCAPE_INCOMPLETE): a backslash stands for
\* the character after it; a lone backslash at the end is dropped.
RECURSIVE unescape_string(_)
unescape_string(t) ==
    IF t = <<>> THEN <<>>
    ELSE IF t[1] = "\\"
         THEN IF Len(t) = 1 THEN <<>>
              ELSE <<t[2]>> \o unescape_string(SubSeq(t, 3, Len(t)))
    ELSE <<t[1]>> \o unescape_string(Tail(t))

\* Mutant: the token the cursor ends is still printed (> for >=).
RECURSIVE write_tokens_cut_late(_, _, _, _, _)
write_tokens_cut_late(tok, k, pos, cut_at_cursor, out) ==
    IF k > Len(tok) THEN out
    ELSE IF cut_at_cursor /\ tok[k].pos + Len(tok[k].last) > pos THEN out
    ELSE write_tokens_cut_late(tok, k + 1, pos, cut_at_cursor,
             IF tok[k].type = TOK_STRING
             THEN out \o unescape_string(tok[k].last) \o <<"\n">>
             ELSE out)

\* The for loop of write_part over the tokens, from the k-th on.
RECURSIVE write_tokens(_, _, _, _, _)
write_tokens(tok, k, pos, cut_at_cursor, out) ==
    IF k > Len(tok) THEN out                                      \* tok_has_next
    ELSE IF cut_at_cursor /\ tok[k].pos + Len(tok[k].last) >= pos THEN out   \* break
    ELSE write_tokens(tok, k + 1, pos, cut_at_cursor,
             IF tok[k].type = TOK_STRING
             THEN out \o unescape_string(tok[k].last) \o <<"\n">>
             ELSE out)

\* What write_part appends to stdout.  pos is a size_t; builtin_commandline only
\* passes extents that begin at or before the cursor, so it never wraps.
write_part(buffer, cursor_pos, begin, end, cut_at_cursor, tokenize) ==
    LET pos == cursor_pos - begin
    IN  IF tokenize
        THEN write_tokens(tokenizer_t(Slice(buffer, begin, end)), 1, pos, cut_at_cursor, <<>>)
        ELSE LET stop == IF cut_at_cursor THEN begin + pos ELSE end
             IN  unescape_string(Slice(buffer, begin, stop)) \o <<"\n">>

LexChars == {"a", " ", ";", "\\"}

\* The calls write_part can get: an extent of the text that starts at or before
\* the cursor.
WriteCalls(n) ==
    {[op |-> "write_part", buffer |-> t, cursor_pos |-> p, begin |-> b, end |-> e,
      cut_at_cursor |-> c, tokenize |-> k, done |-> FALSE, out |-> <<>>] :
        t \in TextsUpTo(LexChars, n), p \in 0..n, b \in 0..n,
        e \in 0..n, c \in BOOLEAN, k \in BOOLEAN}

ValidWriteCall(c) ==
    /\ c.begin <= c.cursor_pos
    /\ c.cursor_pos <= Len(c.buffer)
    /\ c.begin <= c.end
    /\ c.end <= Len(c.buffer)

WriteInit ==
    /\ last \in {c \in WriteCalls(MaxLen) : ValidWriteCall(c)}
    /\ reader = IdleReader(EditableLine(<<>>, 0))
    /\ substituted = <<>>
    /\ queue = <<>>
    /\ frame = NoFrame
    /\ input_queue = <<>>

CallWritePart ==
    /\ last.op = "write_part"
    /\ ~last.done
    /\ last' = [last EXCEPT !.done = TRUE,
                            !.out = write_part(last.buffer, last.cursor_pos, last.begin,
                                               last.end, last.cut_at_cursor, last.tokenize)]
    /\ UNCHANGED <<reader, substituted, queue, frame, input_queue>>

WriteNext == CallWritePart

WriteSpec == WriteInit /\ [][WriteNext]_vars

\* The tokens of the extent, the first one the cursor cuts at, and the lines of
\* the string tokens before it.
ExtentTokens(c) == tokenizer_t(Slice(c.buffer, c.begin, c.end))
TokenEnd(t) == t.pos + Len(t.last)
CutTokens(c) ==
    {k \in 1..Len(ExtentTokens(c)) : TokenEnd(ExtentTokens(c)[k]) >= c.cursor_pos - c.begin}
FirstCut(c) ==
    IF c.cut_at_cursor /\ CutTokens(c) # {}
    THEN CHOOSE k \in CutTokens(c) : \A j \in CutTokens(c) : k <= j
    ELSE Len(ExtentTokens(c)) + 1
IsStringToken(t) == t.type = TOK_STRING
VisitedStrings(c) == SelectSeq(SubSeq(ExtentTokens(c), 1, FirstCut(c) - 1), IsStringToken)

RECURSIVE TokenLines(_)
TokenLines(toks) ==
    IF toks = <<>> THEN <<>>
    ELSE unescape_string(Head(toks).last) \o <<"\n">> \o TokenLines(Tail(toks))

WriteDone == last.op = "write_part" /\ last.done

\* C5: the tokenized path of write_part prints, in order and one per line, the
\* unescaped string tokens of the extent that come before the first token (of
\* any kind) whose end offset reaches the cursor when cutAtCursor is set, and
\* every string token of the extent when it is clear; other tokens print nothing.
C5_TokenizedOutput ==
    (WriteDone /\ last.tokenize) => last.out = TokenLines(VisitedStrings(last))

\* "a;a" with the cursor at its end and cutAtCursor: the first string is
\* printed, the separator is passed over, the last string is cut.
C5_Witness ==
    /\ WriteDone
    /\ last.tokenize /\ last.cut_at_cursor
    /\ Len(ExtentTokens(last)) = 3
    /\ FirstCut(last) = 3
    /\ ExtentTokens(last)[2].type = TOK_END
    /\ last.out = <<"a", "\n">>

\* ====================================================== builtin_commandline
DigitChars == <<"0", "1", "2", "3", "4", "5", "6", "7", "8", "9">>
IsDigit(c) == \E d \in 1..10 : DigitChars[d] = c
DigitValue(c) == (CHOOSE d \in 1..10 : DigitChars[d] = c) - 1

\* The digits at the front of a word, as a number and a count.
RECURSIVE ScanDigits(_, _, _)
ScanDigits(w, k, acc) ==
    IF k <= Len(w) /\ IsDigit(w[k])
    THEN ScanDigits(w, k + 1, 10 * acc + DigitValue(w[k]))
    ELSE [value |-> acc, next |-> k]

\* wcstol(word, &endptr, 10): an optional sign, then digits; without digits the
\* value is 0 and endptr is the word itself.  The words of the model are too short
\* to leave the range of long, so errno stays 0.
wcstol(word) ==
    LET signed == word # <<>> /\ word[1] \in {"-", "+"}
        first == IF signed THEN 2 ELSE 1
        d == ScanDigits(word, first, 0)
    IN  IF d.next = first
        THEN [value |-> 0, endptr |-> word, errno |-> FALSE]
        ELSE [value |-> IF signed /\ word[1] = "-" THEN 0 - d.value ELSE d.value,
              endptr |-> SubSeq(word, d.next, Len(word)), errno |-> FALSE]

\* "%lu\n"
RECURSIVE FormatUnsigned(_)
FormatUnsigned(n) ==
    IF n < 10 THEN <<DigitChars[n + 1]>>
    ELSE FormatUnsigned(n \div 10) \o <<DigitChars[(n % 10) + 1]>>

mini(a, b) == IF a < b THEN a ELSE b
maxi(a, b) == IF a > b THEN a ELSE b

\* parse_util_lineno(buff, pos): one more than the line breaks before pos.
parse_util_lineno(buff, pos) ==
    1 + Cardinality({k \in 1..mini(pos, Len(buff)) : buff[k] = "\n"})

\* parse_util_job_extent / parse_util_process_extent / parse_util_token_extent:
\* the unit the cursor is in, which may be empty; any range around the cursor.
parse_util_extent(buff, cursor_pos) ==
    {<<b, e>> : b \in 0..cursor_pos, e \in cursor_pos..Len(buff)}

\* input_function_get_code: the names it knows.
InputFunctionNames == {<<"x">>}
input_function_get_code(name) == IF name \in InputFunctionNames THEN name ELSE <<>>

HelpText == <<"<help>">>

\* The locals of builtin_commandline that the option loop sets.
InitialLocals(current_buffer) ==
    [buffer_part |-> 0, cut_at_cursor |-> FALSE, append_mode |-> 0,
     function_mode |-> FALSE, selection_mode |-> FALSE, tokenize |-> FALSE,
     cursor_mode |-> FALSE, line_mode |-> FALSE, search_mode |-> FALSE,
     paging_mode |-> FALSE, current_buffer |-> current_buffer, returned |-> ""]

\* One turn of the switch on the option.
Option(st, o) ==
    CASE o.opt = "a" -> [st EXCEPT !.append_mode = APPEND_MODE]
      [] o.opt = "b" -> [st EXCEPT !.buffer_part = STRING_MODE]
      [] o.opt = "i" -> [st EXCEPT !.append_mode = INSERT_MODE]
      [] o.opt = "r" -> [st EXCEPT !.append_mode = REPLACE_MODE]
      [] o.opt = "c" -> [st EXCEPT !.cut_at_cursor = TRUE]
      [] o.opt = "t" -> [st EXCEPT !.buffer_part = TOKEN_MODE]
      [] o.opt = "j" -> [st EXCEPT !.buffer_part = JOB_MODE]
      [] o.opt = "p" -> [st EXCEPT !.buffer_part = PROCESS_MODE]
      [] o.opt = "f" -> [st EXCEPT !.function_mode = TRUE]
      [] o.opt = "o" -> [st EXCEPT !.tokenize = TRUE]
      [] o.opt = "I" -> [st EXCEPT !.current_buffer = EditableLine(o.arg, Len(o.arg))]
      [] o.opt = "C" -> [st EXCEPT !.cursor_mode = TRUE]
      [] o.opt = "L" -> [st EXCEPT !.line_mode = TRUE]
      [] o.opt = "S" -> [st EXCEPT !.search_mode = TRUE]
      [] o.opt = "s" -> [st EXCEPT !.selection_mode = TRUE]
      [] o.opt = "P" -> [st EXCEPT !.paging_mode = TRUE]
      [] o.opt = "h" -> [st EXCEPT !.returned = "help"]
      [] o.opt = "?" -> [st EXCEPT !.returned = "unknown"]

\* The while (1) loop over the options: -h and an unknown option return at once.
RECURSIVE ParseOptions(_, _, _)
ParseOptions(opts, k, st) ==
    IF k > Len(opts) \/ st.returned # "" THEN st
    ELSE ParseOptions(opts, k + 1, Option(st, opts[k]))

Result(ret, out, err, handed, keys, extent) ==
    [ret |-> ret, out |-> out, err |-> err, handed |-> handed, keys |-> keys,
     extent |-> extent]

\* The for loop of function mode: every known name is queued, the first unknown
\* one ends the call with an error.
RECURSIVE FunctionMode(_, _, _)
FunctionMode(argv, i, keys) ==
    IF i > Len(argv) THEN Result(0, <<>>, "", <<>>, keys, <<>>)
    ELSE IF input_function_get_code(argv[i]) # <<>>
         THEN FunctionMode(argv, i + 1, Append(keys, input_function_get_code(argv[i])))
    ELSE Result(1, <<>>, "unknown input function", <<>>, keys, <<>>)

\* The operands joined by line breaks (the default: case of the last switch).
RECURSIVE JoinOperands(_, _)
JoinOperands(argv, i) ==
    IF i > Len(argv) THEN <<>>
    ELSE IF i = 1 THEN argv[1] \o JoinOperands(argv, 2)
    ELSE <<"\n">> \o argv[i] \o JoinOperands(argv, i + 1)

\* Mutant: the position is not held below the text's length.
new_position_no_upper_clamp(new_pos, size) == maxi(0, new_pos)

\* (size_t)maxi(0L, mini(new_pos, (long)current_buffer.text.size()))
new_position(new_pos, size) == maxi(0, mini(new_pos, size))

\* Mutant: the cursor is set on the buffer the options selected.
cursor_mode_buffer_keeps_current(snapshot, current_buffer) == current_buffer

\* current_buffer = snapshot.command_line, before the position is set.
cursor_mode_buffer(snapshot, current_buffer) == snapshot.command_line

\* Mutant: --cut-at-cursor and --tokenize are let through with operands.
read_flags_with_operands_accepted(st, argv) == FALSE

\* (tokenize || cut_at_cursor) && (argc-w.woptind)
read_flags_with_operands(st, argv) ==
    (st.tokenize \/ st.cut_at_cursor) /\ Len(argv) # 0

\* append_mode && !(argc-w.woptind)
insertion_flags_without_operands(st, argv) ==
    st.append_mode # 0 /\ Len(argv) = 0

\* The resolved extents the last switch on buffer_part can end with.
Extents(buffer_part, current_buffer) ==
    IF buffer_part = STRING_MODE
    THEN {<<0, Len(current_buffer.text)>>}
    ELSE parse_util_extent(current_buffer.text, current_buffer.position)

\* From the switch on buffer_part to the end: print the extent, or splice the
\* operands into it.
ExtentMode(st, argv, extent) ==
    IF Len(argv) = 0
    THEN Result(0, write_part(st.current_buffer.text, st.current_buffer.position,
                              extent[1], extent[2], st.cut_at_cursor, st.tokenize),
                "", <<>>, <<>>, extent)
    ELSE Result(0, <<>>, "",
                <<replace_part(st.current_buffer, extent[1], extent[2],
                               JoinOperands(argv, 1), st.append_mode)>>,
                <<>>, extent)

\* if (cursor_mode): with an operand the position is set, else it is printed.
CursorMode(snapshot, st, argv) ==
    IF Len(argv) # 0
    THEN LET n == wcstol(argv[1])
             line == cursor_mode_buffer(snapshot, st.current_buffer)
         IN  Result(0, <<>>,
                    IF n.endptr # <<>> \/ n.errno THEN "not a number" ELSE "",
                    <<EditableLine(line.text, new_position(n.value, Len(line.text)))>>,
                    <<>>, <<>>)
    ELSE Result(0, FormatUnsigned(st.current_buffer.position) \o <<"\n">>, "", <<>>,
                <<>>, <<>>)

\* After the option loop, from if (function_mode) on: the results the call can
\* end with (several only where the extent comes from the parser).
AfterOptions(snapshot, st0, argv) ==
    IF st0.function_mode
    THEN IF \/ st0.buffer_part # 0 \/ st0.cut_at_cursor \/ st0.append_mode # 0
            \/ st0.tokenize \/ st0.cursor_mode \/ st0.line_mode \/ st0.search_mode
            \/ st0.paging_mode
         THEN {Result(1, <<>>, "invalid combination", <<>>, <<>>, <<>>)}
         ELSE IF Len(argv) = 0
         THEN {Result(1, <<>>, "missing argument", <<>>, <<>>, <<>>)}
         ELSE {FunctionMode(argv, 1, <<>>)}
    ELSE IF st0.selection_mode
    THEN LET line == snapshot.command_line
         IN  {Result(0,
                     IF snapshot.selection_is_active
                     THEN Slice(line.text, snapshot.selection_start,
                                mini(snapshot.selection_start + snapshot.selection_length,
                                     Len(line.text)))
                     ELSE <<>>,
                     "", <<>>, <<>>, <<>>)}
    ELSE IF (st0.search_mode \/ st0.line_mode \/ st0.cursor_mode \/ st0.paging_mode)
            /\ Len(argv) > 1
    THEN {Result(1, <<>>, "too many arguments", <<>>, <<>>, <<>>)}
    ELSE IF (st0.buffer_part # 0 \/ st0.tokenize \/ st0.cut_at_cursor)
            /\ (st0.cursor_mode \/ st0.line_mode \/ st0.search_mode \/ st0.paging_mode)
    THEN {Result(1, <<>>, "invalid combination", <<>>, <<>>, <<>>)}
    ELSE IF read_flags_with_operands(st0, argv)
    THEN {Result(1, <<>>, "cannot cut or tokenize when setting", <<>>, <<>>, <<>>)}
    ELSE IF insertion_flags_without_operands(st0, argv)
    THEN {Result(1, <<>>, "insertion mode without operand", <<>>, <<>>, <<>>)}
    ELSE
    LET st == [st0 EXCEPT
                 !.append_mode = IF st0.append_mode = 0 THEN REPLACE_MODE ELSE @,
                 !.buffer_part = IF st0.buffer_part = 0 THEN STRING_MODE ELSE @]
    IN  IF st.cursor_mode THEN {CursorMode(snapshot, st, argv)}
        ELSE IF st.line_mode
        THEN {Result(0, FormatUnsigned(parse_util_lineno(snapshot.command_line.text,
                                                         snapshot.command_line.position))
                            \o <<"\n">>,
                     "", <<>>, <<>>, <<>>)}
        ELSE IF st.search_mode
        THEN {Result(IF snapshot.search_mode THEN 0 ELSE 1, <<>>, "", <<>>, <<>>, <<>>)}
        ELSE IF st.paging_mode
        THEN {Result(IF snapshot.has_pager_contents THEN 0 ELSE 1, <<>>, "", <<>>,
                     <<>>, <<>>)}
        ELSE {ExtentMode(st, argv, x) : x \in Extents(st.buffer_part, st.current_buffer)}

\* The buffer the call starts from: the parser's substituted command line with
\* the cursor at its end if there is one, else the snapshot's command line.
CurrentBuffer(snapshot, subst) ==
    IF subst # <<>>
    THEN EditableLine(subst[Len(subst)], Len(subst[Len(subst)]))
    ELSE snapshot.command_line

\* builtin_commandline from the option loop on, for the snapshot and buffer it
\* started with: the results it can end with.
builtin_commandline(snapshot, current_buffer, opts, argv) ==
    LET st == ParseOptions(opts, 1, InitialLocals(current_buffer))
    IN  IF st.returned = "help" THEN {Result(0, HelpText, "", <<>>, <<>>, <<>>)}
        ELSE IF st.returned = "unknown"
        THEN {Result(1, <<>>, "unknown option", <<>>, <<>>, <<>>)}
        ELSE AfterOptions(snapshot, st, argv)

\* ------------------------------------------------------------- the threads
\* Mutant: the command line is read again from the reader when it is used.
call_snapshot_reads_reader(f, r) == r

\* const reader_snapshot_t snapshot = reader_get_last_snapshot(): the copy taken
\* when the call started, whatever the reader (r) holds now.
call_snapshot(f, r) == f.snapshot

\* builtin_commandline_scoped_transient_t: constructor and destructor.
push_substituted_commandline(cmd) ==
    /\ substituted' = Append(substituted, cmd)
    /\ UNCHANGED <<reader, queue, frame, input_queue>>

pop_substituted_commandline ==
    /\ substituted # <<>>
    /\ substituted' = SubSeq(substituted, 1, Len(substituted) - 1)
    /\ UNCHANGED <<reader, queue, frame, input_queue>>

\* The results builtin_commandline can end with when run on the main thread now.
MainResults(call) ==
    builtin_commandline(reader, CurrentBuffer(reader, substituted), call.opts, call.argv)

\* builtin_commandline run on the main thread, ending with r, one of
\* MainResults(call); nothing else of the main thread runs in between.
MainCall(call, r) ==
    /\ Commit(TRUE, r.handed)
    /\ input_queue' = input_queue \o r.keys
    /\ UNCHANGED <<substituted, frame>>

\* builtin_commandline on another thread, up to the option loop: the snapshot
\* and the buffer it starts from are taken.
IoStart ==
    /\ ~frame.running
    /\ frame' = [running |-> TRUE, snapshot |-> reader,
                 current_buffer |-> CurrentBuffer(reader, substituted)]
    /\ UNCHANGED <<reader, substituted, queue, input_queue>>

\* The results the call in progress on the io thread can end with.
IoResults(call) ==
    builtin_commandline(call_snapshot(frame, reader), frame.current_buffer,
                        call.opts, call.argv)

\* ... and from the option loop to its return, ending with r, one of
\* IoResults(call).
IoFinish(call, r) ==
    /\ Commit(FALSE, r.handed)
    /\ input_queue' = input_queue \o r.keys
    /\ frame' = NoFrame
    /\ UNCHANGED substituted

\* The main thread services the oldest request enqueued to it.
Drain ==
    /\ apply_new_commandline_and_delete
    /\ UNCHANGED <<substituted, frame, input_queue>>

\* What a finished call leaves to look at.
Observed(thread, call, snapshot, current_buffer, r) ==
    [op |-> "commandline", thread |-> thread, opts |-> call.opts, argv |-> call.argv,
     snapshot |-> snapshot, current_buffer |-> current_buffer, ret |-> r.ret,
     out |-> r.out, err |-> r.err, handed |-> r.handed, keys |-> r.keys,
     extent |-> r.extent]

NoCall == [op |-> "none"]

ObservedOnMain(call, r) ==
    Observed("main", call, reader, CurrentBuffer(reader, substituted), r)
ObservedOnIo(call, r) == Observed("io", call, frame.snapshot, frame.current_buffer, r)

\* ========================================================= one call, any options
Flags == {"a", "b", "i", "r", "c", "t", "j", "p", "f", "o", "C", "L", "S", "s", "P",
          "h", "?"}
InputTexts == {<<"b">>}
Options ==
    {[opt |-> o, arg |-> <<>>] : o \in Flags} \cup {[opt |-> "I", arg |-> t] : t \in InputTexts}
OptionLists ==
    {<<>>} \cup {<<o>> : o \in Options} \cup {<<o, q>> : o \in Options, q \in Options}

Words == {<<"x">>, <<"2">>, <<"-", "1">>, <<"9">>, <<"1", "x">>}
OperandLists == {<<>>} \cup {<<w>> : w \in Words} \cup {<<<<"x">>, <<"2">>>>}

ArgCalls == {[opts |-> o, argv |-> v] : o \in OptionLists, v \in OperandLists}

LineChars == {"a"}
Lines(n) == {EditableLine(t, p) : t \in TextsUpTo(LineChars, n), p \in 0..n}
ValidLine(l) == l.position <= Len(l.text)

\* The reader with nothing selected and no mode on, or with the whole line
\* selected while searching with the pager open.
BusyReader(line) ==
    [command_line |-> line, selection_is_active |-> TRUE, selection_start |-> 0,
     selection_length |-> Len(line.text), search_mode |-> TRUE,
     has_pager_contents |-> TRUE]
Readers(n) ==
    {IdleReader(l) : l \in {x \in Lines(n) : ValidLine(x)}}
        \cup {BusyReader(l) : l \in {x \in Lines(n) : ValidLine(x)}}

TransientTexts == {<<"b", "b", "b">>}

ArgInit ==
    /\ reader \in Readers(MaxLine)
    /\ substituted = <<>>
    /\ queue = <<>>
    /\ frame = NoFrame
    /\ input_queue = <<>>
    /\ last = NoCall

ArgPush ==
    /\ last = NoCall /\ ~frame.running /\ substituted = <<>>
    /\ \E cmd \in TransientTexts : push_substituted_commandline(cmd)
    /\ UNCHANGED last

ArgPop ==
    /\ ~frame.running
    /\ pop_substituted_commandline
    /\ UNCHANGED last

ArgMain ==
    /\ last = NoCall /\ ~frame.running
    /\ \E call \in ArgCalls :
         \E r \in MainResults(call) :
            MainCall(call, r) /\ last' = ObservedOnMain(call, r)

ArgIoStart ==
    /\ last = NoCall
    /\ IoStart
    /\ UNCHANGED last

ArgIoFinish ==
    /\ frame.running
    /\ \E call \in ArgCalls :
         \E r \in IoResults(call) :
            IoFinish(call, r) /\ last' = ObservedOnIo(call, r)

ArgDrain ==
    /\ Drain
    /\ UNCHANGED last

ArgNext == ArgPush \/ ArgPop \/ ArgMain \/ ArgIoStart \/ ArgIoFinish \/ ArgDrain

ArgSpec == ArgInit /\ [][ArgNext]_vars

\* ---- reading a finished call
Called == last.op = "commandline"
Given(l, o) == \E k \in 1..Len(l.opts) : l.opts[k].opt = o
GivenAny(l, os) == \E o \in os : Given(l, o)

\* Nothing reached the live buffer or the queue to it: the call handed nothing on,
\* the reader's line is the one the call started with and no request waits.
NothingCommitted ==
    /\ last.handed = <<>>
    /\ queue = <<>>
    /\ reader.command_line = last.snapshot.command_line

\* An optional sign and then digits only, at least one.
IsNumber(w) ==
    LET first == IF w # <<>> /\ w[1] \in {"-", "+"} THEN 2 ELSE 1
    IN  /\ first <= Len(w)
        /\ \A k \in first..Len(w) : IsDigit(w[k])

\* The call is the cursor operation: --cursor with at most an --input beside
\* it, or an insertion mode switch when there is an operand.
CursorCall(l) ==
    /\ Given(l, "C")
    /\ ~GivenAny(l, {"b", "c", "t", "j", "p", "f", "o", "L", "S", "s", "P", "h", "?"})
    /\ Len(l.argv) = 0 => ~GivenAny(l, {"a", "i", "r"})

\* C3: when the cursor operation's argument fails to parse, nothing is committed
\* or enqueued to the live buffer and the operation reports failure.
C3_ParseFailureRejected ==
    (Called /\ CursorCall(last) /\ Len(last.argv) = 1 /\ ~IsNumber(last.argv[1]))
        => (NothingCommitted /\ last.ret # 0)

\* The last --input text if there is one, else the buffer the call started from.
RECURSIVE InputOf(_, _, _)
InputOf(opts, k, line) ==
    IF k > Len(opts) THEN line
    ELSE InputOf(opts, k + 1,
                 IF opts[k].opt = "I" THEN EditableLine(opts[k].arg, Len(opts[k].arg))
                 ELSE line)

Clamped(n, len) == IF n < 0 THEN 0 ELSE IF n > len THEN len ELSE n

\* C10: the cursor operation with a numeric argument n commits the snapshot's
\* command-line text, whatever was substituted or given with --input, with the
\* cursor at n clamped into [0, length(text)]; without an argument it commits
\* nothing and prints the current cursor.
C10_CursorOperation ==
    (Called /\ CursorCall(last)) =>
        /\ (Len(last.argv) = 1 /\ IsNumber(last.argv[1])) =>
              /\ last.handed =
                    <<EditableLine(last.snapshot.command_line.text,
                                   Clamped(wcstol(last.argv[1]).value,
                                           Len(last.snapshot.command_line.text)))>>
              /\ last.ret = 0
        /\ Len(last.argv) = 0 =>
              /\ NothingCommitted
              /\ last.out = FormatUnsigned(InputOf(last.opts, 1, last.current_buffer).position)
                                \o <<"\n">>

\* "commandline -I b -C 9" from the io thread while a command line is
\* substituted: the reader's own text is enqueued with the cursor at its end.
C10_Witness ==
    /\ Called /\ CursorCall(last)
    /\ last.thread = "io"
    /\ Given(last, "I")
    /\ last.argv = <<<<"9">>>>
    /\ last.snapshot.command_line.text = <<"a", "a">>
    /\ last.current_buffer.text = <<"b", "b", "b">>
    /\ last.handed = <<EditableLine(<<"a", "a">>, 2)>>

\* The configuration is conflicting: --cut-at-cursor or --tokenize with operand
\* text, or an insertion mode switch without.
Conflicting(l) ==
    \/ GivenAny(l, {"c", "o"}) /\ Len(l.argv) # 0
    \/ GivenAny(l, {"a", "i", "r"}) /\ Len(l.argv) = 0

Rejected ==
    /\ last.ret # 0
    /\ last.extent = <<>>
    /\ last.out = <<>>
    /\ NothingCommitted

\* C6 as stated: every conflicting configuration is rejected: the call fails,
\* resolves no extent, writes nothing to stdout and commits or enqueues nothing.
C6_ConflictRejected == (Called /\ Conflicting(last)) => Rejected

\* The option loop returns for --help: -h comes before any unknown option.
ReturnsHelp(l) ==
    \E k \in 1..Len(l.opts) :
        l.opts[k].opt = "h" /\ \A j \in 1..(k - 1) : l.opts[j].opt # "?"

\* The call returns from selection mode: -s without -f, and every option known.
ReturnsSelection(l) == Given(l, "s") /\ ~GivenAny(l, {"f", "?"})

\* C6, amended: a conflicting configuration is rejected (failure, no extent
\* resolved, nothing on stdout, nothing committed or enqueued) unless the call
\* returns early for --help or for --selection.
C6_ConflictRejectedUnlessEarlyReturn ==
    (Called /\ Conflicting(last) /\ ~ReturnsHelp(last) /\ ~ReturnsSelection(last))
        => Rejected

\* "commandline -c x": refused, with the reader and the queue as they were.
C6_Witness ==
    /\ Called
    /\ last.opts = <<[opt |-> "c", arg |-> <<>>]>>
    /\ last.argv = <<<<"x">>>>
    /\ Conflicting(last)
    /\ Rejected

\* ================================================= the reader's own editing
\* What one keystroke handled by the reader (the main thread) makes of the line:
\* a character typed at the cursor, the character before it deleted, or the
\* cursor moved by one.
Keystrokes(line) ==
    {EditableLine(Prefix(line.text, line.position) \o <<c>> \o Suffix(line.text, line.position),
                  line.position + 1) : c \in LineChars}
    \cup (IF line.position > 0
          THEN {EditableLine(Prefix(line.text, line.position - 1)
                                 \o Suffix(line.text, line.position),
                             line.position - 1),
                EditableLine(line.text, line.position - 1)}
          ELSE {})
    \cup (IF line.position < Len(line.text)
          THEN {EditableLine(line.text, line.position + 1)}
          ELSE {})

ReaderEdit ==
    /\ \E line \in Keystrokes(reader.command_line) :
          /\ Len(line.text) <= MaxLine
          /\ reader' = [reader EXCEPT !.command_line = line]
    /\ UNCHANGED <<substituted, queue, frame, input_queue>>

\* ============================== one call on the io thread while the reader edits
SnapCalls ==
    {[opts |-> o, argv |-> v] :
        o \in {<<>>} \cup {<<x>> : x \in Options}, v \in OperandLists}

SnapInit == ArgInit

SnapStart ==
    /\ last = NoCall
    /\ IoStart
    /\ UNCHANGED last

SnapEdit ==
    /\ frame.running
    /\ ReaderEdit
    /\ UNCHANGED last

SnapFinish ==
    /\ frame.running
    /\ \E call \in SnapCalls :
         \E r \in IoResults(call) :
            IoFinish(call, r) /\ last' = ObservedOnIo(call, r)

SnapDrain ==
    /\ Drain
    /\ UNCHANGED last

SnapNext == SnapStart \/ SnapEdit \/ SnapFinish \/ SnapDrain

SnapSpec == SnapInit /\ [][SnapNext]_vars

\* The splice a finished call asked for, over the buffer it worked on.
SpliceOf(l) ==
    [buffer |-> InputOf(l.opts, 1, l.current_buffer), begin |-> l.extent[1],
     end |-> l.extent[2], insert |-> JoinOperands(l.argv, 1),
     append_mode |-> IF Given(l, "a") THEN APPEND_MODE
                     ELSE IF Given(l, "i") THEN INSERT_MODE ELSE REPLACE_MODE]

\* The result of the finished call is the one its snapshot gives: a splice is the
\* splice of the snapshot's line, a cursor operation keeps the snapshot's text,
\* a plain read prints the snapshot's extent, --line its line number, and
\* --selection its selection.
FromSnapshot(l) ==
    /\ (l.handed # <<>> /\ l.extent # <<>>) =>
          l.handed = <<EditableLine(ExpectedText(SpliceOf(l)), ExpectedCursor(SpliceOf(l)))>>
    /\ (l.handed # <<>> /\ l.extent = <<>>) =>
          l.handed[1].text = l.snapshot.command_line.text
    /\ (l.handed = <<>> /\ l.extent # <<>> /\ ~GivenAny(l, {"c", "o"})) =>
          l.out = unescape_string(Slice(InputOf(l.opts, 1, l.current_buffer).text,
                                        l.extent[1], l.extent[2])) \o <<"\n">>
    /\ (l.opts = <<[opt |-> "L", arg |-> <<>>]>> /\ Len(l.argv) <= 1) =>
          l.out = FormatUnsigned(parse_util_lineno(l.snapshot.command_line.text,
                                                   l.snapshot.command_line.position))
                      \o <<"\n">>
    /\ (l.opts = <<[opt |-> "s", arg |-> <<>>]>> /\ l.snapshot.selection_is_active) =>
          l.out = Slice(l.snapshot.command_line.text, l.snapshot.selection_start,
                        l.snapshot.selection_start + l.snapshot.selection_length)

Opt(o) == [opt |-> o, arg |-> <<>>]
ConcCalls ==
    {[opts |-> <<>>, argv |-> <<>>],
     [opts |-> <<>>, argv |-> <<<<"a">>>>],
     [opts |-> <<Opt("t"), Opt("r")>>, argv |-> <<<<"a">>>>],
     [opts |-> <<Opt("j"), Opt("i")>>, argv |-> <<<<"a">>>>],
     [opts |-> <<Opt("p"), Opt("a")>>, argv |-> <<<<"a">>>>],
     [opts |-> <<[opt |-> "I", arg |-> <<"a">>], Opt("a")>>, argv |-> <<<<"a">>>>],
     [opts |-> <<Opt("C")>>, argv |-> <<<<"1">>>>],
     [opts |-> <<Opt("C")>>, argv |-> <<<<"9">>>>],
     [opts |-> <<Opt("C")>>, argv |-> <<<<"x">>>>]}

\* The model keeps lines within MaxLine and the queue within MaxQueue.
WithinLine(r) == \A k \in 1..Len(r.handed) : Len(r.handed[k].text) <= MaxLine

Init ==
    /\ reader = IdleReader(EditableLine(<<>>, 0))
    /\ substituted = <<>>
    /\ queue = <<>>
    /\ frame = NoFrame
    /\ input_queue = <<>>
    /\ last = [op |-> "none", thread |-> "none", committed |-> FALSE]

StepOnMain(call, r) ==
    [op |-> "commandline", thread |-> "main", committed |-> r.handed # <<>>]
StepOnIo(call, r) ==
    [op |-> "commandline", thread |-> "io", committed |-> r.handed # <<>>]
WithinQueue(r) == WithinLine(r) /\ (r.handed # <<>> => Len(queue) < MaxQueue)

MainStep ==
    \E call \in ConcCalls :
      \E r \in MainResults(call) :
         WithinLine(r) /\ MainCall(call, r) /\ last' = StepOnMain(call, r)

IoStartStep ==
    /\ IoStart
    /\ last' = [op |-> "start", thread |-> "io", committed |-> FALSE]

IoFinishStep ==
    /\ frame.running
    /\ \E call \in ConcCalls :
         \E r \in IoResults(call) :
            WithinQueue(r) /\ IoFinish(call, r) /\ last' = StepOnIo(call, r)

DrainStep ==
    /\ Drain
    /\ last' = [op |-> "drain", thread |-> "main", committed |-> TRUE]

EditStep ==
    /\ ReaderEdit
    /\ last' = [op |-> "edit", thread |-> "main", committed |-> FALSE]

Next == MainStep \/ IoStartStep \/ IoFinishStep \/ DrainStep \/ EditStep

Spec == Init /\ [][Next]_vars

\* The main thread keeps servicing the requests enqueued to it.
FairSpec == Spec /\ WF_vars(DrainStep)

\* C4: the live buffer, and every line handed to the applier (set directly or
\* waiting in the queue), has its cursor within its text.
C4_CursorWithinText ==
    /\ ValidLine(reader.command_line)
    /\ \A k \in 1..Len(queue) : ValidLine(queue[k])

\* The io thread has enqueued a full line with the cursor at its very end while
\* the live buffer holds a different line.
C4_Witness ==
    /\ last.op = "commandline" /\ last.thread = "io" /\ last.committed
    /\ queue # <<>>
    /\ Len(queue[Len(queue)].text) = MaxLine
    /\ queue[Len(queue)].position = MaxLine
    /\ reader.command_line # queue[Len(queue)]

\* C7: only steps of the main thread change the live buffer; a call on another
\* thread that commits leaves the live buffer alone and adds one request.
C7_MainThreadOnlyWriter ==
    [][/\ reader' # reader => last'.thread = "main"
       /\ (last'.thread = "io" /\ last'.op = "commandline" /\ last'.committed)
              => (reader' = reader /\ Len(queue') = Len(queue) + 1)]_vars

\* The io thread has committed a line that differs from the live buffer: the
\* line waits in the queue and the live buffer is as it was.
C7_Witness ==
    /\ last.op = "commandline" /\ last.thread = "io" /\ last.committed
    /\ queue # <<>>
    /\ queue[Len(queue)].text # reader.command_line.text

IoCommits == last'.thread = "io" /\ last'.op = "commandline" /\ last'.committed
Drains == last'.op = "drain"

====
